---- MODULE Spec2Model ----
(***************************************************************************)
(* multiFileparse.c: a fixed pool of pthreads scans the numbered log files *)
(* ./<dir>access<i>.log of a directory, takes the first token of every     *)
(* line and counts the distinct tokens in a shared map guarded by one      *)
(* mutex.                                                                  *)
(*                                                                         *)
(* A file is a sequence of characters; getline and strtok are modelled on  *)
(* the characters.  The opendir of readFiles (line 150) is taken to        *)
(* succeed: main opened the same directory at line 51.  The `lines'        *)
(* counter of readFiles only feeds a printf and is left out.               *)
(***************************************************************************)
EXTENDS Integers, Sequences, FiniteSets, TLC

\* ---------------------------------------------------------------- bounds
MaxFiles == 3
MaxThreads == 2

\* ------------------------------------------------------------ file texts
SP == " "
LF == "\n"

\* The texts a log file may hold.
FileContents ==
    { << >>,                                          \* empty file
      <<"a", LF>>,                                    \* "a\n"
      <<LF, "a", SP, "x", LF>>,                       \* "\na x\n"
      <<"b", SP, "x", LF, SP>> }                      \* "b x\n " (no final newline)

\* fopen returned NULL for this index
NoFile == <<"ENOENT">>

\* the NULL char pointer strtok returns when a line holds no token (strtok
\* never returns an empty token, so the empty sequence is free to stand for it)
NULL == << >>

NoThread == -1
NotReported == -1

\* ------------------------------------------------------- libc primitives
\* getline: the index of the last character of the line that starts at
\* offset p+1 of text s: up to and including the next newline, or to the end
\* of the text.
RECURSIVE LineEnd(_, _)
LineEnd(s, p) ==
    IF p >= Len(s) THEN Len(s)
    ELSE IF s[p + 1] = LF THEN p + 1
    ELSE LineEnd(s, p + 1)

\* getline hit end of file (returns -1)
AtEOF(s, p) == p >= Len(s)

\* the line getline stores, newline included
getline(s, p) == SubSeq(s, p + 1, LineEnd(s, p))

\* strtok(line, delims), first call: skip leading delimiters, ...
RECURSIVE SkipDelims(_, _)
SkipDelims(line, delims) ==
    IF line = << >> THEN << >>
    ELSE IF Head(line) \in delims THEN SkipDelims(Tail(line), delims)
    ELSE line

\* ... then take the characters up to the next delimiter or the end
RECURSIVE TakeToken(_, _)
TakeToken(line, delims) ==
    IF line = << >> THEN << >>
    ELSE IF Head(line) \in delims THEN << >>
    ELSE <<Head(line)>> \o TakeToken(Tail(line), delims)

strtok(line, delims) ==
    IF SkipDelims(line, delims) = << >> THEN NULL
    ELSE TakeToken(SkipDelims(line, delims), delims)

\* line 175: ip = strtok(line, " ")
FirstToken(line) == strtok(line, {SP})

\* ---------------------------------------------------------------- strmap
\* sm_exists: 1 when the key is stored, 0 otherwise (and 0 for a NULL key)
sm_exists(m, key) == IF key # NULL /\ key \in m THEN 1 ELSE 0

\* sm_put: stores the key; a NULL key is rejected and nothing is stored
sm_put(m, key) == IF key = NULL THEN m ELSE m \cup {key}

\* ----------------------------------------------------------------- state
VARIABLES
    num_files,          \* line 19
    num_threads,        \* line 20
    num_distinct_IPs,   \* line 21
    map,                \* line 25: the keys stored in the StrMap
    map_lock,           \* line 24: the thread that holds the mutex, or NoThread
    disk,               \* disk[i]: text of ./<dir>access<i>.log, or NoFile
    mpc,                \* main: "create", "join", "report", "exit", "aborted"
    mi,                 \* main: loop variable i (lines 108-121)
    pc,                 \* readFiles: position of each thread
    fi,                 \* readFiles: loop variable i (line 151)
    fpos,               \* readFiles: offset of the FILE stream
    ip,                 \* readFiles: char *ip (line 171)
    flag,               \* readFiles: int flag (line 177)
    reported,           \* the count printed at line 123, NotReported before
    attempted,          \* history: the indices each thread passed to fopen
    completed,          \* history: lock..unlock sections completed, per key
    added,              \* history: increments of num_distinct_IPs, per key
    put_failed          \* history: an sm_put has failed for want of memory

vars == <<num_files, num_threads, num_distinct_IPs, map, map_lock, disk, mpc,
          mi, pc, fi, fpos, ip, flag, reported, attempted, completed, added,
          put_failed>>

Threads == 0 .. (num_threads - 1)

\* every line of a text, as getline delivers them
RECURSIVE LinesFrom(_, _)
LinesFrom(s, p) ==
    IF AtEOF(s, p) THEN {}
    ELSE {getline(s, p)} \cup LinesFrom(s, LineEnd(s, p))

LinesOf(s) == LinesFrom(s, 0)

\* every value ip can take
Keys == {FirstToken(l) : l \in UNION {LinesOf(s) : s \in FileContents}} \cup {NULL}

\* ------------------------------------------------------------ partition
\* line 139 with the quotient rounded up
NumRoundedUp == (num_files + num_threads - 1) \div num_threads

\* line 139
Num == num_files \div num_threads

\* line 141
Partition(tid) == tid * Num

\* line 153 with the last thread taken to be number num_threads
LastOneOffByOne(tid) == tid = num_threads

\* line 153
LastOne(tid) == tid = num_threads - 1

\* lines 154-159 with the second bound tested by >=
LoopBreakEarly(tid, i) ==
    \/ LastOne(tid) /\ i > num_files
    \/ ~LastOne(tid) /\ i >= Partition(tid) + Num

\* lines 154-159: the two break conditions of while (1)
LoopBreak(tid, i) ==
    \/ LastOne(tid) /\ i > num_files
    \/ ~LastOne(tid) /\ i > Partition(tid) + Num

\* line 162: the text fopen gives access to
FileAt(i) == IF i \in DOMAIN disk THEN disk[i] ELSE NoFile

\* ------------------------------------------------------------------ Init
Init ==
    /\ num_files \in 0 .. MaxFiles
    /\ num_threads \in 1 .. MaxThreads
    /\ disk \in [1 .. num_files -> FileContents \cup {NoFile}]
    /\ num_distinct_IPs = 0
    /\ map = {}
    /\ map_lock = NoThread
    /\ mpc = "create"
    /\ mi = 0
    /\ pc = [t \in Threads |-> "idle"]
    /\ fi = [t \in Threads |-> 0]
    /\ fpos = [t \in Threads |-> 0]
    /\ ip = [t \in Threads |-> NULL]
    /\ flag = [t \in Threads |-> 0]
    /\ reported = NotReported
    /\ attempted = [t \in Threads |-> << >>]
    /\ completed = [k \in Keys |-> 0]
    /\ added = [k \in Keys |-> 0]
    /\ put_failed = FALSE

\* ------------------------------------------------------------------ main
\* lines 109-116, pthread_create returns 0: thread mi starts readFiles; after
\* the last one the loop of line 119 starts again from i = 0
Create ==
    /\ mpc = "create"
    /\ mi < num_threads
    /\ pc' = [pc EXCEPT ![mi] = "start"]
    /\ mi' = IF mi + 1 < num_threads THEN mi + 1 ELSE 0
    /\ mpc' = IF mi + 1 < num_threads THEN "create" ELSE "join"
    /\ UNCHANGED <<num_files, num_threads, num_distinct_IPs, map, map_lock,
                   disk, fi, fpos, ip, flag, reported, attempted, completed,
                   added,
                   put_failed>>

\* lines 112-115, pthread_create returns an error: exit(-1) ends the process
CreateFails ==
    /\ mpc = "create"
    /\ mi < num_threads
    /\ mpc' = "aborted"
    /\ UNCHANGED <<num_files, num_threads, num_distinct_IPs, map, map_lock,
                   disk, mi, pc, fi, fpos, ip, flag, reported, attempted,
                   completed, added,
                   put_failed>>

\* line 120 with a join that does not wait
JoinableAtOnce(t) == TRUE

\* line 120: pthread_join returns once the joined thread has terminated
Joinable(t) == pc[t] = "done"

\* lines 119-121
Join ==
    /\ mpc = "join"
    /\ Joinable(mi)
    /\ mi' = mi + 1
    /\ mpc' = IF mi + 1 < num_threads THEN "join" ELSE "report"
    /\ UNCHANGED <<num_files, num_threads, num_distinct_IPs, map, map_lock,
                   disk, pc, fi, fpos, ip, flag, reported, attempted,
                   completed, added,
                   put_failed>>

\* line 123
Report ==
    /\ mpc = "report"
    /\ reported' = num_distinct_IPs
    /\ mpc' = "exit"
    /\ UNCHANGED <<num_files, num_threads, num_distinct_IPs, map, map_lock,
                   disk, mi, pc, fi, fpos, ip, flag, attempted, completed,
                   added,
                   put_failed>>

\* ------------------------------------------------------------- readFiles
\* exit(-1) at line 114 ends every thread of the process
Alive == mpc # "aborted"

\* lines 139-151 with int i = partition at line 151
StartFromPartition(t) ==
    /\ Alive
    /\ pc[t] = "start"
    /\ fi' = [fi EXCEPT ![t] = Partition(t)]
    /\ pc' = [pc EXCEPT ![t] = "loop"]
    /\ UNCHANGED <<num_files, num_threads, num_distinct_IPs, map, map_lock,
                   disk, mpc, mi, fpos, ip, flag, reported, attempted,
                   completed, added, put_failed>>

\* lines 139-151: the thread computes its partition and its first index
Start(t) ==
    /\ Alive
    /\ pc[t] = "start"
    /\ fi' = [fi EXCEPT ![t] = Partition(t) + 1]
    /\ pc' = [pc EXCEPT ![t] = "loop"]
    /\ UNCHANGED <<num_files, num_threads, num_distinct_IPs, map, map_lock,
                   disk, mpc, mi, fpos, ip, flag, reported, attempted,
                   completed, added,
                   put_failed>>

\* lines 153-159 and 192-194: the range is exhausted, the thread terminates
Finish(t) ==
    /\ Alive
    /\ pc[t] = "loop"
    /\ LoopBreak(t, fi[t])
    /\ pc' = [pc EXCEPT ![t] = "done"]
    /\ fi' = [fi EXCEPT ![t] = 0]
    /\ UNCHANGED <<num_files, num_threads, num_distinct_IPs, map, map_lock,
                   disk, mpc, mi, fpos, ip, flag, reported, attempted,
                   completed, added,
                   put_failed>>

\* lines 161-166 and 188: fopen of file fi[t]; a file that cannot be opened is
\* reported and the thread moves on to the next index
Open(t) ==
    /\ Alive
    /\ pc[t] = "loop"
    /\ ~LoopBreak(t, fi[t])
    /\ attempted' = [attempted EXCEPT ![t] = Append(@, fi[t])]
    /\ IF FileAt(fi[t]) = NoFile
       THEN /\ fi' = [fi EXCEPT ![t] = @ + 1]
            /\ pc' = pc
       ELSE /\ fi' = fi
            /\ pc' = [pc EXCEPT ![t] = "getline"]
    /\ fpos' = [fpos EXCEPT ![t] = 0]
    /\ UNCHANGED <<num_files, num_threads, num_distinct_IPs, map, map_lock,
                   disk, mpc, mi, ip, flag, reported, completed, added,
                   put_failed>>

\* lines 173-175: getline delivers the next line and strtok its first token
GetLine(t) ==
    /\ Alive
    /\ pc[t] = "getline"
    /\ ~AtEOF(FileAt(fi[t]), fpos[t])
    /\ ip' = [ip EXCEPT ![t] = FirstToken(getline(FileAt(fi[t]), fpos[t]))]
    /\ fpos' = [fpos EXCEPT ![t] = LineEnd(FileAt(fi[t]), fpos[t])]
    /\ pc' = [pc EXCEPT ![t] = "lock"]
    /\ UNCHANGED <<num_files, num_threads, num_distinct_IPs, map, map_lock,
                   disk, mpc, mi, fi, flag, reported, attempted, completed,
                   added,
                   put_failed>>

\* lines 184-188 with i a variable shared by the threads: i++ moves them all
CloseFileSharedIndex(t) ==
    /\ Alive
    /\ pc[t] = "getline"
    /\ AtEOF(FileAt(fi[t]), fpos[t])
    /\ fi' = [u \in Threads |-> fi[u] + 1]
    /\ fpos' = [fpos EXCEPT ![t] = 0]
    /\ pc' = [pc EXCEPT ![t] = "loop"]
    /\ UNCHANGED <<num_files, num_threads, num_distinct_IPs, map, map_lock,
                   disk, mpc, mi, ip, flag, reported, attempted, completed,
                   added, put_failed>>

\* lines 173 and 184-188: getline returns -1, the file is closed, i++
CloseFile(t) ==
    /\ Alive
    /\ pc[t] = "getline"
    /\ AtEOF(FileAt(fi[t]), fpos[t])
    /\ fi' = [fi EXCEPT ![t] = @ + 1]
    /\ fpos' = [fpos EXCEPT ![t] = 0]
    /\ pc' = [pc EXCEPT ![t] = "loop"]
    /\ UNCHANGED <<num_files, num_threads, num_distinct_IPs, map, map_lock,
                   disk, mpc, mi, ip, flag, reported, attempted, completed,
                   added,
                   put_failed>>

\* line 176 with a lock that never blocks
LockFreeAlways(holder) == TRUE

\* line 176: pthread_mutex_lock returns when no thread holds the mutex
LockFree(holder) == holder = NoThread

\* line 176
Lock(t) ==
    /\ Alive
    /\ pc[t] = "lock"
    /\ LockFree(map_lock)
    /\ map_lock' = t
    /\ pc' = [pc EXCEPT ![t] = "exists"]
    /\ UNCHANGED <<num_files, num_threads, num_distinct_IPs, map, disk, mpc,
                   mi, fi, fpos, ip, flag, reported, attempted, completed,
                   added,
                   put_failed>>

\* line 178 with the test of flag dropped
NewEntryAlways(f) == TRUE

\* line 178: the branch that adds the key
NewEntry(f) == f = 0

\* lines 177-182 with the unlock inside the if: a key that is already stored
\* takes the thread back to getline with the mutex locked
ExistsSkipsUnlock(t) ==
    /\ Alive
    /\ pc[t] = "exists"
    /\ flag' = [flag EXCEPT ![t] = sm_exists(map, ip[t])]
    /\ pc' = [pc EXCEPT ![t] = IF NewEntry(flag'[t]) THEN "put" ELSE "getline"]
    /\ UNCHANGED <<num_files, num_threads, num_distinct_IPs, map, map_lock,
                   disk, mpc, mi, fi, fpos, ip, reported, attempted,
                   completed, added, put_failed>>

\* lines 177-178
Exists(t) ==
    /\ Alive
    /\ pc[t] = "exists"
    /\ flag' = [flag EXCEPT ![t] = sm_exists(map, ip[t])]
    /\ pc' = [pc EXCEPT ![t] = IF NewEntry(flag'[t]) THEN "put" ELSE "unlock"]
    /\ UNCHANGED <<num_files, num_threads, num_distinct_IPs, map, map_lock,
                   disk, mpc, mi, fi, fpos, ip, reported, attempted,
                   completed, added,
                   put_failed>>

\* line 179
Put(t) ==
    /\ Alive
    /\ pc[t] = "put"
    /\ map' = sm_put(map, ip[t])
    /\ pc' = [pc EXCEPT ![t] = "incr"]
    /\ UNCHANGED <<num_files, num_threads, num_distinct_IPs, map_lock, disk,
                   mpc, mi, fi, fpos, ip, flag, reported, attempted,
                   completed, added,
                   put_failed>>

\* line 179 when the map cannot allocate the new entry: sm_put returns 0 and
\* stores nothing; the result is not looked at and the thread goes on to
\* line 180.  One failure per run is enough to show its effect.
PutFails(t) ==
    /\ Alive
    /\ pc[t] = "put"
    /\ ip[t] # NULL
    /\ ~put_failed
    /\ put_failed' = TRUE
    /\ pc' = [pc EXCEPT ![t] = "incr"]
    /\ UNCHANGED <<num_files, num_threads, num_distinct_IPs, map, map_lock,
                   disk, mpc, mi, fi, fpos, ip, flag, reported, attempted,
                   completed, added>>

\* line 180 with -- for ++
IncrDecrements(t) ==
    /\ Alive
    /\ pc[t] = "incr"
    /\ num_distinct_IPs' = num_distinct_IPs - 1
    /\ added' = [added EXCEPT ![ip[t]] = @ + 1]
    /\ pc' = [pc EXCEPT ![t] = "unlock"]
    /\ UNCHANGED <<num_files, num_threads, map, map_lock, disk, mpc, mi, fi,
                   fpos, ip, flag, reported, attempted, completed,
                   put_failed>>

\* line 180
Incr(t) ==
    /\ Alive
    /\ pc[t] = "incr"
    /\ num_distinct_IPs' = num_distinct_IPs + 1
    /\ added' = [added EXCEPT ![ip[t]] = @ + 1]
    /\ pc' = [pc EXCEPT ![t] = "unlock"]
    /\ UNCHANGED <<num_files, num_threads, map, map_lock, disk, mpc, mi, fi,
                   fpos, ip, flag, reported, attempted, completed,
                   put_failed>>

\* line 182 left out: the mutex stays locked
UnlockKeepsLock(t) ==
    /\ Alive
    /\ pc[t] = "unlock"
    /\ map_lock' = map_lock
    /\ completed' = [completed EXCEPT ![ip[t]] = @ + 1]
    /\ ip' = [ip EXCEPT ![t] = NULL]
    /\ flag' = [flag EXCEPT ![t] = 0]
    /\ pc' = [pc EXCEPT ![t] = "getline"]
    /\ UNCHANGED <<num_files, num_threads, num_distinct_IPs, map, disk, mpc,
                   mi, fi, fpos, reported, attempted, added, put_failed>>

\* line 182
Unlock(t) ==
    /\ Alive
    /\ pc[t] = "unlock"
    /\ map_lock' = IF map_lock = t THEN NoThread ELSE map_lock
    /\ completed' = [completed EXCEPT ![ip[t]] = @ + 1]
    /\ ip' = [ip EXCEPT ![t] = NULL]
    /\ flag' = [flag EXCEPT ![t] = 0]
    /\ pc' = [pc EXCEPT ![t] = "getline"]
    /\ UNCHANGED <<num_files, num_threads, num_distinct_IPs, map, disk, mpc,
                   mi, fi, fpos, reported, attempted, added,
                   put_failed>>

\* ------------------------------------------------------------------ Next
Next ==
    \/ Create
    \/ CreateFails
    \/ Join
    \/ Report
    \/ \E t \in Threads : Start(t)
    \/ \E t \in Threads : Finish(t)
    \/ \E t \in Threads : Open(t)
    \/ \E t \in Threads : GetLine(t)
    \/ \E t \in Threads : CloseFile(t)
    \/ \E t \in Threads : Lock(t)
    \/ \E t \in Threads : Exists(t)
    \/ \E t \in Threads : Put(t)
    \/ \E t \in Threads : Incr(t)
    \/ \E t \in Threads : Unlock(t)

Spec == Init /\ [][Next]_vars

\* the steps of main, lines 109-123
Main == Create \/ CreateFails \/ Join \/ Report

\* the steps of the thread with number t, lines 138-195
Worker(t) ==
    /\ t \in Threads
    /\ \/ Start(t) \/ Finish(t) \/ Open(t) \/ GetLine(t) \/ CloseFile(t)
       \/ Lock(t) \/ Exists(t) \/ Put(t) \/ Incr(t) \/ Unlock(t)

\* the scheduler runs every thread that can take a step: main and each of the
\* pthreads it created
Fairness ==
    /\ WF_vars(Main)
    /\ \A t \in 0 .. (MaxThreads - 1) : WF_vars(Worker(t))

\* termination does not depend on what the lines hold: the runs under
\* fairness start from files with two of the texts (both of two lines, with
\* an empty line, a line without token and a shared address) or missing
FairContents ==
    { <<LF, "a", SP, "x", LF>>,
      <<"b", SP, "x", LF, SP>> }

InitFair ==
    /\ Init
    /\ \A i \in 1 .. num_files : disk[i] \in FairContents \cup {NoFile}

SpecFair == InitFair /\ [][Next]_vars /\ Fairness

\* the program in an environment where an allocation of the map may fail
NextOOM ==
    \/ Next
    \/ \E t \in Threads : PutFails(t)

SpecOOM == Init /\ [][NextOOM]_vars

\* the scenario of 3 files scanned by 5 workers, and by a single worker
Init13 ==
    /\ num_files = 3
    /\ num_threads \in {1, 5}
    /\ disk \in [1 .. num_files -> FileContents \cup {NoFile}]
    /\ num_distinct_IPs = 0
    /\ map = {}
    /\ map_lock = NoThread
    /\ mpc = "create"
    /\ mi = 0
    /\ pc = [t \in Threads |-> "idle"]
    /\ fi = [t \in Threads |-> 0]
    /\ fpos = [t \in Threads |-> 0]
    /\ ip = [t \in Threads |-> NULL]
    /\ flag = [t \in Threads |-> 0]
    /\ reported = NotReported
    /\ attempted = [t \in Threads |-> << >>]
    /\ completed = [k \in Keys |-> 0]
    /\ added = [k \in Keys |-> 0]
    /\ put_failed = FALSE

Spec13 == Init13 /\ [][Next]_vars

\* lines 175-182 run by a thread that is alone: the map and the counter after
\* one line
ScanLine(st, line) ==
    IF NewEntry(sm_exists(st.map, FirstToken(line)))
    THEN [map |-> sm_put(st.map, FirstToken(line)), count |-> st.count + 1]
    ELSE st

\* lines 173-183 run by a thread that is alone: the lines of text s from
\* offset p on
RECURSIVE ScanFile(_, _, _)
ScanFile(st, s, p) ==
    IF AtEOF(s, p) THEN st
    ELSE ScanFile(ScanLine(st, getline(s, p)), s, LineEnd(s, p))

\* lines 152-189 run by a single thread (tid 0 of 1): the files i..num_files
RECURSIVE ScanFrom(_, _)
ScanFrom(st, i) ==
    IF i > num_files THEN st
    ELSE IF FileAt(i) = NoFile THEN ScanFrom(st, i + 1)
    ELSE ScanFrom(ScanFile(st, FileAt(i), 0), i + 1)

\* the count a run with a single worker prints
SingleWorkerCount == ScanFrom([map |-> {}, count |-> 0], 1).count

\* ------------------------------------------------------------ properties
\* the characters the specification calls whitespace
Whitespace == {SP, LF, "\t"}

\* the address of a line: its first whitespace-delimited token, NULL if none
AddressOf(line) == strtok(line, Whitespace)

\* the files of 1..num_files that fopen can open
Readable == {i \in 1 .. num_files : disk[i] # NoFile}

\* the distinct addresses of the readable files
DistinctAddresses ==
    {AddressOf(l) : l \in UNION {LinesOf(disk[i]) : i \in Readable}} \ {NULL}

AllDone == \A t \in Threads : pc[t] = "done"

\* the positions between pthread_mutex_lock and pthread_mutex_unlock
InSection == {"exists", "put", "incr", "unlock"}

\* the sequence a, a+1, ..., b (empty when b < a)
Interval(a, b) == IF b < a THEN << >> ELSE [k \in 1 .. (b - a + 1) |-> a + k - 1]

\* the elements of a sequence
SeqElems(s) == {s[k] : k \in 1 .. Len(s)}

IsPrefix(s, r) == Len(s) <= Len(r) /\ s = SubSeq(r, 1, Len(s))

\* the range the Partitioner assigns to worker t of W over F files
PerWorker == num_files \div num_threads
RangeStart(t) == t * PerWorker + 1
RangeEnd(t) == IF t = num_threads - 1 THEN num_files ELSE (t + 1) * PerWorker
ExpectedAttempts(t) == Interval(RangeStart(t), RangeEnd(t))

\* the indices the loop of readFiles visits for thread t
Range(t) ==
    {i \in 0 .. (2 * num_files + 2) : i >= Partition(t) + 1 /\ ~LoopBreak(t, i)}

\* C1: the count the Coordinator reports after joining all workers equals the
\* number of distinct addresses (first whitespace-delimited tokens) of the
\* readable files with index in 1..totalFiles.
C1_ReportedCountIsDistinctAddresses ==
    reported # NotReported => reported = Cardinality(DistinctAddresses)

\* C2: at most one worker is between lock and unlock, that worker holds the
\* mutex, and while a worker stays between lock and unlock no other worker
\* takes a step of its own check, insertion or increment: the set and the
\* counter change only by the steps of the worker in the section.
C2_SectionInvariant ==
    /\ Cardinality({t \in Threads : pc[t] \in InSection}) <= 1
    /\ \A t \in Threads : pc[t] \in InSection => map_lock = t

C2_NoInterleaving ==
    \A t \in Threads :
        (pc[t] \in InSection /\ pc'[t] = pc[t]) =>
            /\ map' = map
            /\ num_distinct_IPs' = num_distinct_IPs
            /\ \A u \in Threads \ {t} : pc'[u] \notin InSection

C2_MutualExclusion == []C2_SectionInvariant /\ [][C2_NoInterleaving]_vars

\* a worker is inside the section while another one waits for the mutex
C2_Witness ==
    \E t, u \in Threads : t # u /\ pc[t] = "incr" /\ pc[u] = "lock"

\* C3: whenever the lock is not held, distinctCount equals the number of keys
\* in the shared set.
C3_CountEqualsKeysWhenUnlocked ==
    map_lock = NoThread => num_distinct_IPs = Cardinality(map)

\* C4: for 1 <= W <= totalFiles the ranges of the W workers partition
\* 1..totalFiles: every index lies in the range of exactly one worker and no
\* range holds an index outside 1..totalFiles; the workers, once terminated,
\* have attempted every index of their range exactly once.
C4_RangesPartition ==
    (1 <= num_threads /\ num_threads <= num_files /\ AllDone) =>
        LET R == [t \in Threads |-> Range(t)]
        IN  /\ UNION {R[t] : t \in Threads} = 1 .. num_files
            /\ \A t, u \in Threads : t # u => R[t] \cap R[u] = {}
            /\ \A t \in Threads :
                   /\ SeqElems(attempted[t]) = R[t]
                   /\ Len(attempted[t]) = Cardinality(R[t])

\* 3 files over 2 workers (remainder 1), every worker has run its range
C4_Witness ==
    /\ num_files = 3 /\ num_threads = 2 /\ AllDone
    /\ attempted[0] = <<1>> /\ attempted[1] = <<2, 3>>

C7_ReadAfterJoin ==
    /\ [](reported # NotReported => AllDone)
    /\ [][reported # NotReported =>
             (num_distinct_IPs' = num_distinct_IPs /\ reported' = reported)]_vars

\* the count was read after two workers made inserts
C7_Witness ==
    /\ reported # NotReported /\ reported >= 2
    /\ num_threads = 2
    /\ \A t \in Threads : attempted[t] # << >>

\* C8: the calls of insertIfAbsent with one address a raise distinctCount by
\* exactly 1 in total, however many calls there are and in any interleaving.
C8_InsertIdempotent ==
    \A k \in Keys \ {NULL} :
        /\ added[k] <= 1
        /\ completed[k] >= 1 => added[k] = 1

\* an address inserted three times, by two workers, and counted once
C8_Witness ==
    /\ num_threads = 2
    /\ \E k \in Keys \ {NULL} : completed[k] >= 3 /\ added[k] = 1

\* C9: a line without a whitespace-delimited token yields no candidate: its
\* processing inserts nothing into the set and leaves distinctCount unchanged.
\* (The token strtok cuts from such a line is NULL or made of whitespace only.)
C9_TokenlessLineSkipped ==
    \A k \in Keys :
        AddressOf(k) = NULL => (added[k] = 0 /\ k \notin map)

\* C10: when some index cannot be opened, no insert is made for it, every
\* worker still attempts all of its range, and the final count is the number
\* of distinct addresses of the files that could be opened.
C10_MissingFileSkipped ==
    (\E i \in 1 .. num_files : disk[i] = NoFile) =>
        /\ \A t \in Threads :
               /\ pc[t] \in {"getline", "lock"} \cup InSection
                      => FileAt(fi[t]) # NoFile
               /\ pc[t] = "done" => attempted[t] = ExpectedAttempts(t)
        /\ reported # NotReported => reported = Cardinality(DistinctAddresses)

\* C11: a failed insertion (allocation failure inside the set) is fatal to the
\* process: after it no final count is reported, and distinctCount is never
\* incremented for a key that is not stored.
C11_PutFailureIsFatal ==
    put_failed =>
        /\ reported = NotReported
        /\ \A k \in Keys \ {NULL} : added[k] > 0 => k \in map

\* C12: with totalFiles = 0 every worker's range is empty, no worker opens a
\* file, acquires the lock or performs an insert, and the final count
\* reported is 0.
C12_NoFiles ==
    num_files = 0 =>
        /\ \A t \in Threads :
               /\ Range(t) = {}
               /\ attempted[t] = << >>
               /\ pc[t] \in {"idle", "start", "loop", "done"}
               /\ completed = [k \in Keys |-> 0]
        /\ map_lock = NoThread
        /\ map = {}
        /\ num_distinct_IPs = 0
        /\ reported \in {NotReported, 0}

\* two workers over an empty directory have terminated and 0 was reported
C12_Witness ==
    num_files = 0 /\ num_threads = 2 /\ AllDone /\ reported = 0

C14_LaunchFailureNoPartialScan ==
    mpc = "aborted" =>
        /\ reported = NotReported
        /\ \A t \in Threads : attempted[t] = << >>
        /\ map = {}
        /\ num_distinct_IPs = 0

\* C15: under weak fairness of main and of every worker, once the W workers
\* are launched every worker exhausts its range and terminates and the
\* Coordinator passes the join and reports the count; no state before the
\* report (or before the exit of a failed launch) is a deadlock.
C15_NoDeadlock ==
    mpc \in {"create", "join", "report"} => ENABLED <<Next>>_vars

C15_Termination ==
    /\ []C15_NoDeadlock
    /\ (mpc = "join") ~> (AllDone /\ reported # NotReported)

\* the count was reported after two workers met a missing file and an address
\* that occurs twice
C15_Witness ==
    /\ mpc = "exit" /\ AllDone /\ reported # NotReported
    /\ num_threads = 2
    /\ \E i \in 1 .. num_files : disk[i] = NoFile
    /\ \E k \in Keys \ {NULL} : completed[k] >= 2

\* C16: in every step distinctCount stays or grows by 1 and the shared set
\* keeps every key it holds.
C16_Monotonic ==
    [][/\ num_distinct_IPs' \in {num_distinct_IPs, num_distinct_IPs + 1}
       /\ map \subseteq map']_vars

\* two keys were stored and counted by two workers
C16_Witness ==
    /\ num_threads = 2
    /\ Cardinality(map) >= 2 /\ num_distinct_IPs >= 2
    /\ \A t \in Threads : attempted[t] # << >>

\* the cursor of worker t (its position, file index, offset, current token
\* and flag, and the indices it has attempted) changes in the step
CursorChanged(t) ==
    \/ pc'[t] # pc[t]
    \/ fi'[t] # fi[t]
    \/ fpos'[t] # fpos[t]
    \/ ip'[t] # ip[t]
    \/ flag'[t] # flag[t]
    \/ attempted'[t] # attempted[t]

\* C17: a step changes the cursor of one worker at most, changes the shared
\* set and counter only as a step of the worker that is between lock and
\* unlock, and leaves totalFiles, the worker count, the files and every
\* worker's range as they are (the range of worker t is fixed by t, perWorker,
\* totalFiles and the worker count).
C17_Frame ==
    [][/\ num_files' = num_files
       /\ num_threads' = num_threads
       /\ disk' = disk
       /\ PerWorker' = PerWorker
       /\ \A t \in Threads :
              CursorChanged(t) => \A u \in Threads \ {t} : ~CursorChanged(u)
       /\ (map' # map \/ num_distinct_IPs' # num_distinct_IPs) =>
              \E t \in Threads :
                  /\ pc[t] \in InSection
                  /\ map_lock = t
                  /\ CursorChanged(t)]_vars

\* both workers are in the middle of their files, one of them in the section
C17_Witness ==
    /\ num_threads = 2
    /\ pc[0] = "getline" /\ fpos[0] > 0
    /\ pc[1] = "incr" /\ fpos[1] > 0

\* C18: a worker holds the lock only across the check, the insertion and the
\* increment of one line: the holder is always between lock and unlock, so no
\* worker opens or closes a file, reads a line, advances its index or
\* terminates with the lock, and the lock is free when all workers have
\* terminated and when the Coordinator reads the count.
C18_LockOnlyInSection ==
    /\ \A t \in Threads : map_lock = t => pc[t] \in InSection
    /\ map_lock \in Threads \cup {NoThread}
    /\ AllDone => map_lock = NoThread
    /\ mpc \in {"report", "exit"} => map_lock = NoThread

\* both workers have taken and released the lock, all have terminated and the
\* count was read
C18_Witness ==
    /\ num_threads = 2 /\ AllDone /\ mpc = "exit"
    /\ map_lock = NoThread
    /\ \E k \in Keys : completed[k] >= 2
    /\ \A t \in Threads : attempted[t] # << >>

\* the lines worker t has read so far: all lines of the files it has finished
\* and the lines before its offset in the file it is reading
LinesRead(t) ==
    UNION { IF FileAt(f) = NoFile THEN {}
            ELSE IF f = fi[t] /\ pc[t] \in {"getline", "lock"} \cup InSection
                 THEN LinesOf(SubSeq(FileAt(f), 1, fpos[t]))
                 ELSE LinesOf(FileAt(f)) : f \in SeqElems(attempted[t]) }

\* the distinct addresses of the lines read so far by all workers
AddressesRead ==
    {AddressOf(l) : l \in UNION {LinesRead(t) : t \in Threads}} \ {NULL}

\* the calls of insertIfAbsent that have passed their increment: the completed
\* ones and the one in progress that waits for its unlock
RECURSIVE SumCompleted(_)
SumCompleted(K) ==
    IF K = {} THEN 0
    ELSE LET k == CHOOSE x \in K : TRUE
         IN  completed[k] + SumCompleted(K \ {k})

CallsPastIncrement ==
    SumCompleted(Keys) + Cardinality({t \in Threads : pc[t] = "unlock"})

\* C19: distinctCount is at most the number of insertIfAbsent calls made so
\* far (a call counts from its increment on) and at most the number of
\* distinct addresses in the lines already read by all workers; it never
\* exceeds the number of distinct addresses of the whole file set.
C19_CountBounded ==
    /\ num_distinct_IPs <= CallsPastIncrement
    /\ num_distinct_IPs <= Cardinality(AddressesRead)
    /\ num_distinct_IPs <= Cardinality(DistinctAddresses)

====
